---- MODULE Spec2Model ----
(***************************************************************************)
(* A model of the SCION beacon server (infrastructure/beacon_server.py):   *)
(* the receiver, the propagation loop and the registration loop of a core  *)
(* or a local beacon server, sharing the two deques `beacons` and          *)
(* `reg_queue`.                                                            *)
(***************************************************************************)
EXTENDS Integers, Sequences, FiniteSets, TLC

VARIABLES
    role,             \* "core" (CoreBeaconServer) or "local" (LocalBeaconServer)
    registers_paths,  \* self.config.registers_paths
    topology,         \* self.topology (read-only after construction)
    ifid2addr,        \* self.ifid2addr: interface id -> next hop address
    clock,            \* the readings int(time.time()) still to be returned
    inflight,         \* packets the transport will hand to handle_request
    beacons,          \* self.beacons
    reg_queue,        \* self.reg_queue
    sent,             \* every self.send(packet, dst), in order
    prop_pc,          \* position of the handle_pcbs_propagation thread
    prop_pcb,         \* its local variable pcb
    reg_pc,           \* position of the register_paths thread
    reg_pcb,          \* its local variable new_pcb
    hist,             \* history: tags accepted / popped / queued / dequeued
    last_calls        \* the propagate_* calls made by the latest propagation step

vars == <<role, registers_paths, topology, ifid2addr, clock, inflight, beacons,
          reg_queue, sent, prop_pc, prop_pcb, reg_pc, reg_pcb, hist, last_calls>>

(***************************************************************************)
(* Bounds of the model.                                                    *)
(***************************************************************************)
MaxBeacons == 2      \* packets in flight in the concurrency specification
MaxAds == 3          \* markings carried by a received PCB
MaxNeighbors == 2    \* routers per neighbor category
MaxTicks == 2        \* propagation ticks of a core server (each originates)
MaxClockStep == 5    \* seconds between two readings of the clock

(***************************************************************************)
(* Program constants.                                                      *)
(***************************************************************************)
DELTA == 24 * 60 * 60
TIME_INTERVAL == 4
\* Sizes defined by lib.packet.pcb; only their being fixed and positive matters.
PCBMarkingLEN == 32
PeerMarkingLEN == 24

Null == [none |-> TRUE]

(***************************************************************************)
(* Rationals, for Python 3's true division.                                *)
(***************************************************************************)
RECURSIVE Gcd(_, _)
Gcd(a, b) == IF b = 0 THEN a ELSE Gcd(b, a % b)

\* a / b for ints a >= 0, b > 0: the exact quotient, in lowest terms.
TrueDiv(a, b) == LET g == Gcd(a, b) IN [num |-> a \div g, den |-> b \div g]

IsInteger(q) == q.den = 1
RatLeq(p, q) == p.num * q.den <= q.num * p.den
RatOfInt(n) == [num |-> n, den |-> 1]

(***************************************************************************)
(* Opaque fields, markings and PCBs.                                       *)
(***************************************************************************)
HopOpaqueField(ingress_if, egress_if) ==
    [ingress_if |-> ingress_if, egress_if |-> egress_if]

\* SupportSignatureField(): the block size starts at the PCBMarking length.
SupportSignatureField == [block_size |-> PCBMarkingLEN]

PCBMarking(ad_id, ssf, hof, spcbf) ==
    [ad_id |-> ad_id, ssf |-> ssf, hof |-> hof, spcbf |-> spcbf]

PeerMarking(ad_id, hof, spf) == [ad_id |-> ad_id, hof |-> hof, spf |-> spf]

\* ADMarking.from_values(pcbm, pms): sig is the marking's signature, 0 = none.
ADMarking(pcbm, pms) == [pcbm |-> pcbm, pms |-> pms, sig |-> 0]

\* ROTField(): a fresh root-of-trust field carries interface 0.
ROTField == [if_id |-> 0]

InfoOpaqueField(info, timestamp, isd_id) ==
    [info |-> info, timestamp |-> timestamp, isd_id |-> isd_id]

\* HalfPathBeacon(): tag names the beacon the object stems from (0: originated).
HalfPathBeacon == [tag |-> 0, iof |-> Null, rotf |-> ROTField, ads |-> <<>>]

add_ad(pcb, ad_marking) == [pcb EXCEPT !.ads = Append(@, ad_marking)]

StripSig(ad) == [ad EXCEPT !.sig = 0]

remove_signatures(pcb) ==
    [pcb EXCEPT !.ads = [i \in DOMAIN pcb.ads |-> StripSig(pcb.ads[i])]]

get_first_ad(pcb) == pcb.ads[1].pcbm

Reverse(s) == [i \in 1..Len(s) |-> s[Len(s) + 1 - i]]

\* pcb.get_path(reverse_direction=True): the hop fields, last marking first.
get_path_reversed(pcb) == Reverse([i \in DOMAIN pcb.ads |-> pcb.ads[i].pcbm.hof])

get_first_hop_of(path) == path[1]

DeepCopy(pcb) == pcb

(***************************************************************************)
(* Topology, addresses and packets.                                        *)
(***************************************************************************)
Router(cat, base, i) ==
    [if_id |-> base + i, addr |-> <<cat, i>>, neighbor_ad |-> base + i]

Routers(cat, base, n) == [i \in 1..n |-> Router(cat, base, i)]

\* A topology with the given numbers of CHILD, ROUTING and PEER routers; this
\* AD is (ISD 1, AD 5).  An AD that is not a core AD has one PARENT router.
Topology(core, nChild, nRouting, nPeer, hasPS) ==
    [isd_id |-> 1, ad_id |-> 5, is_core_ad |-> core,
     routers |-> [CHILD |-> Routers("CHILD", 10, nChild),
                  ROUTING |-> Routers("ROUTING", 20, nRouting),
                  PEER |-> Routers("PEER", 30, nPeer),
                  PARENT |-> Routers("PARENT", 40, IF core THEN 0 ELSE 1)],
     servers |-> IF hasPS THEN [e \in {"PATH_SERVER"} |-> [addr |-> <<"PS", 0>>]]
                 ELSE [e \in {} |-> Null]]

\* self.addr
SelfAddr == <<"BS", 0>>

\* The interface table resolving exactly the interface ids in ifs.
IfidTable(ifs) == [i \in ifs |-> <<"HOP", i>>]

Beacon(dst, pcb) ==
    [type |-> "BEACON", addr |-> dst, info |-> Null, pcb |-> pcb, path |-> Null]

PathInfo(type, src_isd, dst_isd, src_ad, dst_ad) ==
    [type |-> type, src_isd |-> src_isd, dst_isd |-> dst_isd,
     src_ad |-> src_ad, dst_ad |-> dst_ad]

PathRecords(dst, info, pcb, path) ==
    [type |-> "PATH_REC", addr |-> dst, info |-> info, pcb |-> pcb, path |-> path]

\* self.send(packet, dst)
Send(packet, dst) == [packet |-> packet, dst |-> dst]

(***************************************************************************)
(* BeaconServer._create_ad_marking                                         *)
(***************************************************************************)
\* One iteration of the loop over the PEER routers, without the block size.
PeerStepNoSize(acc, router_peer, egress_if, topo) ==
    [pcbm |-> acc.pcbm,
     pms |-> Append(acc.pms,
                    PeerMarking(router_peer.neighbor_ad,
                                HopOpaqueField(router_peer.if_id, egress_if),
                                [isd_id |-> topo.isd_id]))]

\* One iteration of the loop over the PEER routers.
PeerStep(acc, router_peer, egress_if, topo) ==
    [pcbm |-> [acc.pcbm EXCEPT !.ssf.block_size = @ + PeerMarkingLEN],
     pms |-> Append(acc.pms,
                    PeerMarking(router_peer.neighbor_ad,
                                HopOpaqueField(router_peer.if_id, egress_if),
                                [isd_id |-> topo.isd_id]))]

RECURSIVE PeerLoop(_, _, _, _)
PeerLoop(acc, peers, egress_if, topo) ==
    IF peers = <<>> THEN acc
    ELSE PeerLoop(PeerStep(acc, Head(peers), egress_if, topo), Tail(peers),
                  egress_if, topo)

create_ad_marking(topo, ingress_if, egress_if) ==
    LET pcbm == PCBMarking(topo.ad_id, SupportSignatureField,
                           HopOpaqueField(ingress_if, egress_if),
                           [isd_id |-> topo.isd_id])
        done == PeerLoop([pcbm |-> pcbm, pms |-> <<>>], topo.routers.PEER,
                         egress_if, topo)
    IN  ADMarking(done.pcbm, done.pms)

(***************************************************************************)
(* propagate_downstream_pcb and propagate_core_pcb.  A step is one         *)
(* iteration of the loop over the routers: it yields the caller's pcb      *)
(* object as the iteration leaves it, and the packet sent.                 *)
(***************************************************************************)
\* The iteration without copy.deepcopy: new_pcb is the caller's object.
DownstreamStepAliased(pcb, ingress_if, router_child, topo) ==
    LET egress_if == router_child.if_id
        new_pcb == add_ad([pcb EXCEPT !.rotf.if_id = egress_if],
                          create_ad_marking(topo, ingress_if, egress_if))
    IN  [pcb |-> new_pcb,
         out |-> Send(Beacon(router_child.addr, new_pcb), router_child.addr)]

\* The iteration without new_pcb.rotf.if_id = egress_if.
DownstreamStepKeepRotf(pcb, ingress_if, router_child, topo) ==
    LET new_pcb0 == DeepCopy(pcb)
        egress_if == router_child.if_id
        new_pcb == add_ad(new_pcb0, create_ad_marking(topo, ingress_if, egress_if))
    IN  [pcb |-> pcb,
         out |-> Send(Beacon(router_child.addr, new_pcb), router_child.addr)]

DownstreamStep(pcb, ingress_if, router_child, topo) ==
    LET new_pcb0 == DeepCopy(pcb)
        egress_if == router_child.if_id
        new_pcb == add_ad([new_pcb0 EXCEPT !.rotf.if_id = egress_if],
                          create_ad_marking(topo, ingress_if, egress_if))
    IN  [pcb |-> pcb,
         out |-> Send(Beacon(router_child.addr, new_pcb), router_child.addr)]

RECURSIVE DownstreamLoop(_, _, _, _, _)
DownstreamLoop(pcb, ingress_if, routers, topo, outs) ==
    IF routers = <<>> THEN [pcb |-> pcb, outs |-> outs]
    ELSE LET r == DownstreamStep(pcb, ingress_if, Head(routers), topo)
         IN  DownstreamLoop(r.pcb, ingress_if, Tail(routers), topo,
                            Append(outs, r.out))

propagate_downstream_pcb(pcb, topo) ==
    DownstreamLoop(pcb, pcb.rotf.if_id, topo.routers.CHILD, topo, <<>>)

\* The iteration without copy.deepcopy: new_pcb is the caller's object.
CoreStepAliased(pcb, ingress_if, core_router, topo) ==
    LET egress_if == core_router.if_id
        new_pcb == add_ad([pcb EXCEPT !.rotf.if_id = egress_if],
                          create_ad_marking(topo, ingress_if, egress_if))
    IN  [pcb |-> new_pcb,
         out |-> Send(Beacon(core_router.addr, new_pcb), core_router.addr)]

CoreStep(pcb, ingress_if, core_router, topo) ==
    LET new_pcb0 == DeepCopy(pcb)
        egress_if == core_router.if_id
        new_pcb == add_ad([new_pcb0 EXCEPT !.rotf.if_id = egress_if],
                          create_ad_marking(topo, ingress_if, egress_if))
    IN  [pcb |-> pcb,
         out |-> Send(Beacon(core_router.addr, new_pcb), core_router.addr)]

RECURSIVE CoreLoop(_, _, _, _, _)
CoreLoop(pcb, ingress_if, routers, topo, outs) ==
    IF routers = <<>> THEN [pcb |-> pcb, outs |-> outs]
    ELSE LET r == CoreStep(pcb, ingress_if, Head(routers), topo)
         IN  CoreLoop(r.pcb, ingress_if, Tail(routers), topo, Append(outs, r.out))

propagate_core_pcb(pcb, topo) ==
    CoreLoop(pcb, pcb.rotf.if_id, topo.routers.ROUTING, topo, <<>>)

(***************************************************************************)
(* process_pcb: the queue after the call.                                  *)
(***************************************************************************)
\* The scan looking at the first marking only.
AlreadySeenFirstOnly(pcb, topo) ==
    /\ pcb.ads # <<>>
    /\ pcb.ads[1].pcbm.spcbf.isd_id = topo.isd_id
    /\ pcb.ads[1].pcbm.ad_id = topo.ad_id

\* The scan of pcb.ads: some marking carries this server's (ISD, AD).
AlreadySeen(pcb, topo) ==
    \E i \in DOMAIN pcb.ads :
        /\ pcb.ads[i].pcbm.spcbf.isd_id = topo.isd_id
        /\ pcb.ads[i].pcbm.ad_id = topo.ad_id

\* CoreBeaconServer.process_pcb
CoreProcessPcb(queue, pcb, topo) ==
    IF AlreadySeen(pcb, topo) THEN queue ELSE Append(queue, pcb)

\* The base class's process_pcb with the core server's scan of the markings.
BaseProcessPcbFiltered(queue, pcb, topo) ==
    IF AlreadySeen(pcb, topo) THEN queue ELSE Append(queue, pcb)

\* BeaconServer.process_pcb
BaseProcessPcb(queue, pcb, topo) == Append(queue, pcb)

(***************************************************************************)
(* Registration.  Each call yields the packets it sent, the pcb object as  *)
(* it leaves it, and whether it raised (a failed lookup: KeyError).        *)
(***************************************************************************)
\* The terminating marking added by register_paths to a copy of pcb.
Terminated(pcb, topo) ==
    add_ad(DeepCopy(pcb), create_ad_marking(topo, pcb.rotf.if_id, 0))

\* register_core_path with pcb.remove_signatures() as its first statement.
register_core_path_strip_first(pcb, topo, table) ==
    LET stripped == remove_signatures(pcb)
        info == PathInfo("CORE", get_first_ad(pcb).spcbf.isd_id, topo.isd_id,
                         get_first_ad(pcb).ad_id, topo.ad_id)
        local == IF "PATH_SERVER" \in DOMAIN topo.servers
                 THEN LET dst == topo.servers["PATH_SERVER"].addr
                      IN  <<Send(PathRecords(dst, info, stripped, Null), dst)>>
                 ELSE <<>>
        path == get_path_reversed(stripped)
        if_id == get_first_hop_of(path).ingress_if
    IN  IF if_id \in DOMAIN table
        THEN [outs |-> Append(local,
                              Send(PathRecords(SelfAddr, info, stripped, path),
                                   table[if_id])),
              pcb |-> stripped, raised |-> FALSE]
        ELSE [outs |-> local, pcb |-> stripped, raised |-> TRUE]

\* register_core_path with the PathInfo's source taken from the last marking.
register_core_path_last_ad(pcb, topo, table) ==
    LET last == pcb.ads[Len(pcb.ads)].pcbm
        info == PathInfo("CORE", last.spcbf.isd_id, topo.isd_id,
                         last.ad_id, topo.ad_id)
        local == IF "PATH_SERVER" \in DOMAIN topo.servers
                 THEN LET dst == topo.servers["PATH_SERVER"].addr
                      IN  <<Send(PathRecords(dst, info, pcb, Null), dst)>>
                 ELSE <<>>
        stripped == remove_signatures(pcb)
        path == get_path_reversed(stripped)
        if_id == get_first_hop_of(path).ingress_if
    IN  IF if_id \in DOMAIN table
        THEN [outs |-> Append(local,
                              Send(PathRecords(SelfAddr, info, stripped, path),
                                   table[if_id])),
              pcb |-> stripped, raised |-> FALSE]
        ELSE [outs |-> local, pcb |-> stripped, raised |-> TRUE]

\* CoreBeaconServer.register_core_path
register_core_path(pcb, topo, table) ==
    LET info == PathInfo("CORE", get_first_ad(pcb).spcbf.isd_id, topo.isd_id,
                         get_first_ad(pcb).ad_id, topo.ad_id)
        local == IF "PATH_SERVER" \in DOMAIN topo.servers
                 THEN LET dst == topo.servers["PATH_SERVER"].addr
                      IN  <<Send(PathRecords(dst, info, pcb, Null), dst)>>
                 ELSE <<>>
        stripped == remove_signatures(pcb)
        path == get_path_reversed(stripped)
        if_id == get_first_hop_of(path).ingress_if
    IN  IF if_id \in DOMAIN table
        THEN [outs |-> Append(local,
                              Send(PathRecords(SelfAddr, info, stripped, path),
                                   table[if_id])),
              pcb |-> stripped, raised |-> FALSE]
        ELSE [outs |-> local, pcb |-> stripped, raised |-> TRUE]

\* LocalBeaconServer.register_up_path
register_up_path(pcb, topo) ==
    LET info == PathInfo("UP", topo.isd_id, topo.isd_id,
                         get_first_ad(pcb).ad_id, topo.ad_id)
    IN  IF "PATH_SERVER" \in DOMAIN topo.servers
        THEN LET dst == topo.servers["PATH_SERVER"].addr
             IN  [outs |-> <<Send(PathRecords(dst, info, pcb, Null), dst)>>,
                  pcb |-> pcb, raised |-> FALSE]
        ELSE [outs |-> <<>>, pcb |-> pcb, raised |-> TRUE]

\* LocalBeaconServer.register_down_path
register_down_path(pcb, topo, table) ==
    LET stripped == remove_signatures(pcb)
        info == PathInfo("DOWN", topo.isd_id, topo.isd_id,
                         get_first_ad(stripped).ad_id, topo.ad_id)
        core_path == get_path_reversed(stripped)
        if_id == get_first_hop_of(core_path).ingress_if
    IN  IF if_id \in DOMAIN table
        THEN [outs |-> <<Send(PathRecords(SelfAddr, info, stripped, core_path),
                              table[if_id])>>,
              pcb |-> stripped, raised |-> FALSE]
        ELSE [outs |-> <<>>, pcb |-> stripped, raised |-> TRUE]

\* The inner loop's body with the two registrations in the other order.
register_local_paths_down_first(pcb, topo, table) ==
    LET down == register_down_path(pcb, topo, table)
    IN  IF down.raised THEN down
        ELSE LET up == register_up_path(down.pcb, topo)
             IN  [outs |-> down.outs \o up.outs, pcb |-> up.pcb,
                  raised |-> up.raised]

\* The body of LocalBeaconServer.register_paths' inner loop after the copy.
register_local_paths(pcb, topo, table) ==
    LET up == register_up_path(pcb, topo)
    IN  IF up.raised THEN up
        ELSE LET down == register_down_path(up.pcb, topo, table)
             IN  [outs |-> up.outs \o down.outs, pcb |-> down.pcb,
                  raised |-> down.raised]

\* The check at the top of register_paths, ignoring the configuration.
RegisterPathsEntryAlways(flag) == "check"

\* The check at the top of register_paths: where the thread goes next.
RegisterPathsEntry(flag) == IF ~flag THEN "done" ELSE "check"

(***************************************************************************)
(* The timestamp of a fresh InfoOpaqueField.                               *)
(***************************************************************************)
Timestamp(now) == TrueDiv((now + DELTA) % (TIME_INTERVAL * (2 ^ 16)), TIME_INTERVAL)

(***************************************************************************)
(* Inputs: the packets the transport delivers.                             *)
(***************************************************************************)
\* A marking put on a PCB by another server of AD ad in ISD isd, signed.
RemoteMarking(isd, ad) ==
    [pcbm |-> PCBMarking(ad, SupportSignatureField, HopOpaqueField(1, 2),
                         [isd_id |-> isd]),
     pms |-> <<>>, sig |-> 1]

\* The (ISD, AD) pairs markings come from: this AD, and two that share one of
\* its two ids.
ADs == {<<1, 5>>, <<1, 6>>, <<2, 5>>}

SeqsUpTo(S, n) == UNION {[1..k -> S] : k \in 0..n}

ReceivedPCB(tag, rot_if, ids) ==
    [tag |-> tag,
     iof |-> InfoOpaqueField("TDC_XOVR", RatOfInt(0), 1),
     rotf |-> [if_id |-> rot_if],
     ads |-> [i \in DOMAIN ids |-> RemoteMarking(ids[i][1], ids[i][2])]]

Packet(ptype, pcb) == [ptype |-> ptype, pcb |-> pcb]

\* The contents of the beacons of the concurrency specification.
SimpleContents ==
    {<<1, <<>>>>, <<1, <<<<1, 6>>>>>>, <<2, <<<<1, 6>>>>>>, <<1, <<<<1, 5>>>>>>}

\* n beacon packets, tagged 1..n in the order of their delivery.
BeaconTrains(contents, n) ==
    {[i \in 1..n |-> Packet("BEACON", ReceivedPCB(i, c[i][1], c[i][2]))] :
        c \in [1..n -> contents]}

\* The clock readings of a run: non-decreasing, at most MaxClockStep apart.
RECURSIVE ClockRuns(_, _)
ClockRuns(firsts, n) ==
    IF n = 0 THEN {<<>>}
    ELSE UNION {{<<t>> \o r : r \in ClockRuns(t..(t + MaxClockStep), n - 1)} :
                    t \in firsts}

\* rcv: the PCBs handed to process_pcb; acc, pop, enq, deq: the tags appended
\* to beacons, popped from it, appended to reg_queue and popped from it; org:
\* the clock reading and the timestamp of each origination; mid: the tags
\* appended to beacons while the propagation thread was inside its drain.
NoHist ==
    [rcv |-> <<>>, acc |-> <<>>, pop |-> <<>>, enq |-> <<>>, deq |-> <<>>,
     org |-> <<>>, mid |-> <<>>]

\* The state after construction, for a configuration and a train of packets.
InitOf(roles, flags, topos, tables, clocks, trains) ==
    /\ role \in roles
    /\ registers_paths \in flags
    /\ topology \in {t \in topos : t.is_core_ad = (role = "core")}
    /\ ifid2addr \in tables
    /\ clock \in IF role = "core" THEN clocks ELSE {<<>>}
    /\ inflight \in trains
    /\ beacons = <<>>
    /\ reg_queue = <<>>
    /\ sent = <<>>
    /\ prop_pc = "start"
    /\ prop_pcb = Null
    /\ reg_pc = "start"
    /\ reg_pcb = Null
    /\ hist = NoHist
    /\ last_calls = <<>>

config == <<role, registers_paths, topology, ifid2addr>>

(***************************************************************************)
(* The receiver: SCIONElement.run hands each packet to handle_request.     *)
(***************************************************************************)
\* handle_request handing an interface-id reply to process_pcb as well.
handle_request_reply_as_beacon(queue, packet, server_role, topo) ==
    IF packet.ptype = "IFID_REQ" THEN queue
    ELSE IF packet.ptype \in {"IFID_REP", "BEACON"}
         THEN IF server_role = "core" THEN CoreProcessPcb(queue, packet.pcb, topo)
              ELSE BaseProcessPcb(queue, packet.pcb, topo)
    ELSE queue

\* handle_request: the beacons deque after the packet is handled.
handle_request(queue, packet, server_role, topo) ==
    IF packet.ptype = "IFID_REQ" THEN queue
    ELSE IF packet.ptype = "IFID_REP" THEN queue
    ELSE IF packet.ptype = "BEACON"
         THEN IF server_role = "core" THEN CoreProcessPcb(queue, packet.pcb, topo)
              ELSE BaseProcessPcb(queue, packet.pcb, topo)
    ELSE queue

\* No packet is delivered once a core server has begun its last modelled tick.
Receive ==
    /\ inflight # <<>>
    /\ role = "core" => clock # <<>>
    /\ LET packet == Head(inflight)
       IN  /\ beacons' = handle_request(beacons, packet, role, topology)
           /\ hist' = IF packet.ptype # "BEACON" THEN hist
                      ELSE IF beacons' # beacons
                      THEN [hist EXCEPT !.rcv = Append(@, packet.pcb),
                                        !.acc = Append(@, packet.pcb.tag),
                                        !.mid = IF prop_pc \in {"pop", "propagate", "append"}
                                                THEN Append(@, packet.pcb.tag) ELSE @]
                      ELSE [hist EXCEPT !.rcv = Append(@, packet.pcb)]
    /\ inflight' = Tail(inflight)
    /\ UNCHANGED <<config, clock, reg_queue, sent, prop_pc, prop_pcb, reg_pc,
                   reg_pcb, last_calls>>

(***************************************************************************)
(* The propagation thread: handle_pcbs_propagation.                        *)
(***************************************************************************)
Call(fn, before, result) ==
    [fn |-> fn, before |-> before, after |-> result.pcb, outs |-> result.outs]

\* The tick originating the core-mesh PCB only.
PropTickCoreOnly ==
    /\ prop_pc \in {"start", "sleep"}
    /\ IF role = "core"
       THEN /\ clock # <<>>
            /\ LET timestamp == Timestamp(Head(clock))
                   iof == InfoOpaqueField("TDC_XOVR", timestamp, topology.isd_id)
                   core_pcb == [HalfPathBeacon EXCEPT !.iof = iof]
                   core == propagate_core_pcb(core_pcb, topology)
               IN  /\ sent' = sent \o core.outs
                   /\ last_calls' = <<Call("core", core_pcb, core)>>
            /\ hist' = [hist EXCEPT !.org =
                            Append(@, [now |-> Head(clock),
                                       timestamp |-> Timestamp(Head(clock))])]
            /\ clock' = Tail(clock)
       ELSE UNCHANGED <<clock, sent, last_calls, hist>>
    /\ prop_pc' = "check"
    /\ UNCHANGED <<config, inflight, beacons, reg_queue, prop_pcb, reg_pc,
                   reg_pcb>>

\* The top of the outer loop.  A core server originates its two beacons.
PropTick ==
    /\ prop_pc \in {"start", "sleep"}
    /\ IF role = "core"
       THEN /\ clock # <<>>
            /\ LET timestamp == Timestamp(Head(clock))
                   iof == InfoOpaqueField("TDC_XOVR", timestamp, topology.isd_id)
                   downstream_pcb == [HalfPathBeacon EXCEPT !.iof = iof]
                   core_pcb == [HalfPathBeacon EXCEPT !.iof = iof]
                   down == propagate_downstream_pcb(downstream_pcb, topology)
                   core == propagate_core_pcb(core_pcb, topology)
               IN  /\ sent' = sent \o down.outs \o core.outs
                   /\ last_calls' = <<Call("downstream", downstream_pcb, down),
                                      Call("core", core_pcb, core)>>
            /\ hist' = [hist EXCEPT !.org =
                            Append(@, [now |-> Head(clock),
                                       timestamp |-> Timestamp(Head(clock))])]
            /\ clock' = Tail(clock)
       ELSE UNCHANGED <<clock, sent, last_calls, hist>>
    /\ prop_pc' = "check"
    /\ UNCHANGED <<config, inflight, beacons, reg_queue, prop_pcb, reg_pc,
                   reg_pcb>>

\* The loop test as len(self.beacons) > 1.
PropCheckMoreThanOne ==
    /\ prop_pc = "check"
    /\ prop_pc' = IF Len(beacons) > 1 THEN "pop" ELSE "sleep"
    /\ last_calls' = <<>>
    /\ UNCHANGED <<config, clock, inflight, beacons, reg_queue, sent, prop_pcb,
                   reg_pc, reg_pcb, hist>>

\* while self.beacons:
PropCheck ==
    /\ prop_pc = "check"
    /\ prop_pc' = IF beacons # <<>> THEN "pop" ELSE "sleep"
    /\ last_calls' = <<>>
    /\ UNCHANGED <<config, clock, inflight, beacons, reg_queue, sent, prop_pcb,
                   reg_pc, reg_pcb, hist>>

\* The pop reading the head without removing it: pcb = self.beacons[0]
PropPopPeek ==
    /\ prop_pc = "pop"
    /\ prop_pcb' = Head(beacons)
    /\ hist' = [hist EXCEPT !.pop = Append(@, Head(beacons).tag)]
    /\ prop_pc' = "propagate"
    /\ UNCHANGED <<config, clock, inflight, beacons, reg_queue, sent, reg_pc,
                   reg_pcb, last_calls>>

\* pcb = self.beacons.popleft()
PropPop ==
    /\ prop_pc = "pop"
    /\ prop_pcb' = Head(beacons)
    /\ beacons' = Tail(beacons)
    /\ hist' = [hist EXCEPT !.pop = Append(@, Head(beacons).tag)]
    /\ prop_pc' = "propagate"
    /\ UNCHANGED <<config, clock, inflight, reg_queue, sent, reg_pc, reg_pcb,
                   last_calls>>

\* The drain of the base class run by a core server:
\* self.propagate_downstream_pcb(pcb)
PropPropagateBase ==
    /\ prop_pc = "propagate"
    /\ LET result == propagate_downstream_pcb(prop_pcb, topology)
       IN  /\ sent' = sent \o result.outs
           /\ prop_pcb' = result.pcb
           /\ last_calls' = <<Call("downstream", prop_pcb, result)>>
    /\ prop_pc' = "append"
    /\ UNCHANGED <<config, clock, inflight, beacons, reg_queue, reg_pc, reg_pcb,
                   hist>>

\* self.propagate_core_pcb(pcb) or self.propagate_downstream_pcb(pcb)
PropPropagate ==
    /\ prop_pc = "propagate"
    /\ LET fn == IF role = "core" THEN "core" ELSE "downstream"
           result == IF role = "core" THEN propagate_core_pcb(prop_pcb, topology)
                     ELSE propagate_downstream_pcb(prop_pcb, topology)
       IN  /\ sent' = sent \o result.outs
           /\ prop_pcb' = result.pcb
           /\ last_calls' = <<Call(fn, prop_pcb, result)>>
    /\ prop_pc' = "append"
    /\ UNCHANGED <<config, clock, inflight, beacons, reg_queue, reg_pc, reg_pcb,
                   hist>>

\* The drain as `if self.beacons:`, one PCB per tick.
PropAppendThenSleep ==
    /\ prop_pc = "append"
    /\ reg_queue' = Append(reg_queue, prop_pcb)
    /\ hist' = [hist EXCEPT !.enq = Append(@, prop_pcb.tag)]
    /\ prop_pcb' = Null
    /\ prop_pc' = "sleep"
    /\ last_calls' = <<>>
    /\ UNCHANGED <<config, clock, inflight, beacons, sent, reg_pc, reg_pcb>>

\* self.reg_queue.append(pcb)
PropAppend ==
    /\ prop_pc = "append"
    /\ reg_queue' = Append(reg_queue, prop_pcb)
    /\ hist' = [hist EXCEPT !.enq = Append(@, prop_pcb.tag)]
    /\ prop_pcb' = Null
    /\ prop_pc' = "check"
    /\ last_calls' = <<>>
    /\ UNCHANGED <<config, clock, inflight, beacons, sent, reg_pc, reg_pcb>>

PropNext == PropTick \/ PropCheck \/ PropPop \/ PropPropagate \/ PropAppend

(***************************************************************************)
(* The registration thread: register_paths.                                *)
(***************************************************************************)
\* if not self.config.registers_paths: return
RegStart ==
    /\ reg_pc = "start"
    /\ reg_pc' = RegisterPathsEntry(registers_paths)
    /\ UNCHANGED <<config, clock, inflight, beacons, reg_queue, sent, prop_pc,
                   prop_pcb, reg_pcb, hist, last_calls>>

\* while self.reg_queue:
RegCheck ==
    /\ reg_pc = "check"
    /\ reg_pc' = IF reg_queue # <<>> THEN "pop" ELSE "sleep"
    /\ UNCHANGED <<config, clock, inflight, beacons, reg_queue, sent, prop_pc,
                   prop_pcb, reg_pcb, hist, last_calls>>

\* The pop taking the newest entry: pcb = self.reg_queue.pop()
RegPopRight ==
    /\ reg_pc = "pop"
    /\ reg_pcb' = Terminated(reg_queue[Len(reg_queue)], topology)
    /\ reg_queue' = SubSeq(reg_queue, 1, Len(reg_queue) - 1)
    /\ hist' = [hist EXCEPT !.deq = Append(@, reg_queue[Len(reg_queue)].tag)]
    /\ reg_pc' = "register"
    /\ UNCHANGED <<config, clock, inflight, beacons, sent, prop_pc, prop_pcb,
                   last_calls>>

\* pcb = self.reg_queue.popleft(); the copy; the terminating marking
RegPop ==
    /\ reg_pc = "pop"
    /\ reg_pcb' = Terminated(Head(reg_queue), topology)
    /\ reg_queue' = Tail(reg_queue)
    /\ hist' = [hist EXCEPT !.deq = Append(@, Head(reg_queue).tag)]
    /\ reg_pc' = "register"
    /\ UNCHANGED <<config, clock, inflight, beacons, sent, prop_pc, prop_pcb,
                   last_calls>>

\* register_core_path, or register_up_path and register_down_path.  An
\* uncaught KeyError ends the thread.
RegRegister ==
    /\ reg_pc = "register"
    /\ LET result == IF role = "core"
                     THEN register_core_path(reg_pcb, topology, ifid2addr)
                     ELSE register_local_paths(reg_pcb, topology, ifid2addr)
       IN  /\ sent' = sent \o result.outs
           /\ reg_pc' = IF result.raised THEN "dead" ELSE "check"
    /\ reg_pcb' = Null
    /\ UNCHANGED <<config, clock, inflight, beacons, reg_queue, prop_pc, prop_pcb,
                   hist, last_calls>>

\* time.sleep(self.config.registration_time) returns
RegWake ==
    /\ reg_pc = "sleep"
    /\ reg_pc' = "check"
    /\ UNCHANGED <<config, clock, inflight, beacons, reg_queue, sent, prop_pc,
                   prop_pcb, reg_pcb, hist, last_calls>>

RegNext == RegStart \/ RegCheck \/ RegPop \/ RegRegister \/ RegWake

Next ==
    \/ Receive
    \/ PropTick \/ PropCheck \/ PropPop \/ PropPropagate \/ PropAppend
    \/ RegStart \/ RegCheck \/ RegPop \/ RegRegister \/ RegWake

(***************************************************************************)
(* Specifications.                                                         *)
(***************************************************************************)
\* The three activities interleaved, for both roles and both settings of
\* registers_paths, with and without a local path server; the interface
\* table resolves interface 1 only.
Init ==
    InitOf({"core", "local"}, BOOLEAN,
           {Topology(c, 1, 1, 1, ps) : c \in BOOLEAN, ps \in BOOLEAN},
           {IfidTable({1})},
           {[i \in 1..MaxTicks |-> i]},
           BeaconTrains(SimpleContents, MaxBeacons))

Spec == Init /\ [][Next]_vars

(***************************************************************************)
(* C1.  Core loop prevention.                                              *)
(***************************************************************************)
\* A core server receiving a beacon and then a second one carrying up to
\* MaxAds markings of any of ADs, or the two in the other order.
InitAccept ==
    InitOf({"core"}, {TRUE}, {Topology(TRUE, 1, 1, 1, TRUE)}, {IfidTable({1})},
           {[i \in 1..MaxTicks |-> i]},
           UNION {{<<Packet("BEACON", ReceivedPCB(1, 1, <<>>)),
                     Packet("BEACON", ReceivedPCB(2, 1, ids))>>,
                   <<Packet("BEACON", ReceivedPCB(1, 1, ids)),
                     Packet("BEACON", ReceivedPCB(2, 1, <<>>))>>} :
                      ids \in SeqsUpTo(ADs, MaxAds)})

SpecAccept == InitAccept /\ [][Next]_vars

\* The positions of pcb's markings that carry this server's (ISD, AD).
OwnPositions(pcb) ==
    {i \in 1..Len(pcb.ads) :
        <<pcb.ads[i].pcbm.spcbf.isd_id, pcb.ads[i].pcbm.ad_id>>
            = <<topology.isd_id, topology.ad_id>>}

\* C1: whenever a core server is handed a beacon, a PCB with a marking of the
\* server's own (ISD, AD) at any position leaves the inbound queue exactly as
\* it was, and any other PCB is appended once, at the tail.
C1_CoreLoopPrevention ==
    [][(/\ role = "core"
        /\ inflight # <<>>
        /\ inflight' = Tail(inflight)
        /\ Head(inflight).ptype = "BEACON")
       => IF OwnPositions(Head(inflight).pcb) # {}
          THEN beacons' = beacons
          ELSE beacons' = Append(beacons, Head(inflight).pcb)]_vars

\* A PCB with the own marking second of three was refused while another PCB
\* had been accepted, and one with the own marking last of three as well.
C1_Witness ==
    /\ role = "core"
    /\ Len(hist.rcv) = 2
    /\ hist.acc = <<1>>
    /\ Len(hist.rcv[2].ads) = 3
    /\ OwnPositions(hist.rcv[2]) = {2}

(***************************************************************************)
(* C2, C7, C8.  Fan-out, the AD marking, and the leaf scenario.            *)
(***************************************************************************)
\* One received beacon, at a server of either role with 0..MaxNeighbors
\* routers of each category.
InitFanout ==
    InitOf({"core", "local"}, {TRUE},
           {Topology(c, n, m, p, TRUE) :
                c \in BOOLEAN, n \in 0..MaxNeighbors, m \in 0..MaxNeighbors,
                p \in 0..MaxNeighbors},
           {IfidTable({1})},
           {[i \in 1..MaxTicks |-> i]},
           {<<Packet("BEACON", ReceivedPCB(1, rot_if, ids))>> :
                rot_if \in {1, 2},
                ids \in {<<>>, <<<<1, 6>>>>, <<<<2, 5>>, <<1, 6>>>>}})

SpecFanout == InitFanout /\ [][Next]_vars

\* The routers a propagate call sends to.
Targets(fn) ==
    IF fn = "downstream" THEN topology.routers.CHILD ELSE topology.routers.ROUTING

\* A marking with every egress interface it mentions blanked.
EraseEgress(m) ==
    [m EXCEPT !.pcbm.hof.egress_if = 0,
              !.pms = [k \in DOMAIN m.pms |-> [m.pms[k] EXCEPT !.hof.egress_if = 0]]]

FanoutOf(c) ==
    LET n == Len(c.before.ads)
        routers == Targets(c.fn)
        new(i) == c.outs[i].packet.pcb.ads[n + 1]
    IN  /\ Len(c.outs) = Len(routers)
        /\ \A i \in 1..Len(c.outs) :
              /\ c.outs[i].packet.type = "BEACON"
              /\ c.outs[i].dst = routers[i].addr
              /\ Len(c.outs[i].packet.pcb.ads) = n + 1
              /\ SubSeq(c.outs[i].packet.pcb.ads, 1, n) = c.before.ads
              /\ new(i).pcbm.hof.ingress_if = c.before.rotf.if_id
              /\ new(i).pcbm.hof.egress_if = routers[i].if_id
              /\ \A j \in 1..Len(c.outs) : EraseEgress(new(i)) = EraseEgress(new(j))
        /\ c.after.rotf = c.before.rotf
        /\ c.after.ads = c.before.ads

\* C2: every propagate_downstream_pcb / propagate_core_pcb call over N routers
\* sends N beacons, each the original markings plus one new marking, the new
\* markings alike but for the egress interface (the router's); the original
\* PCB's ROTField and markings are as before, also in the thread's variable.
C2_FanoutImmutability ==
    /\ \A k \in 1..Len(last_calls) : FanoutOf(last_calls[k])
    /\ prop_pc = "append" => /\ Len(last_calls) = 1
                             /\ prop_pcb = last_calls[1].before

\* A received PCB with two markings was propagated to two routers.
C2_Witness ==
    /\ prop_pc = "append"
    /\ Len(last_calls) = 1
    /\ Len(last_calls[1].outs) = 2
    /\ Len(last_calls[1].before.ads) = 2

\* The marking a sent packet's PCB ends with: the one this server built.
BuiltMarking(s) == s.packet.pcb.ads[Len(s.packet.pcb.ads)]

MarkingWellFormed(m) ==
    LET peers == topology.routers.PEER
    IN  /\ Len(m.pms) = Len(peers)
        /\ \A k \in 1..Len(peers) :
              /\ m.pms[k].hof.ingress_if = peers[k].if_id
              /\ m.pms[k].hof.egress_if = m.pcbm.hof.egress_if
              /\ m.pms[k].ad_id = peers[k].neighbor_ad
        /\ m.pcbm.ssf.block_size = PCBMarkingLEN + Len(peers) * PeerMarkingLEN

\* C8: every AD marking the server builds holds one peer marking per PEER
\* router, keyed by that router's interface and the marking's egress, and its
\* block_size is the PCBMarking size plus the peer markings' lengths.
C8_SignatureScope ==
    /\ \A i \in 1..Len(sent) : MarkingWellFormed(BuiltMarking(sent[i]))
    /\ reg_pc = "register" => MarkingWellFormed(reg_pcb.ads[Len(reg_pcb.ads)])

\* With two PEER routers a marking with two peer markings was sent.
C8_Witness ==
    /\ Len(topology.routers.PEER) = 2
    /\ \E i \in 1..Len(sent) :
          /\ Len(BuiltMarking(sent[i]).pms) = 2
          /\ BuiltMarking(sent[i]).pcbm.hof.egress_if # 0
          /\ BuiltMarking(sent[i]).pcbm.hof.ingress_if # 0

\* The leaf scenario: a local server with exactly one CHILD router, a local
\* path server, registration enabled, and one beacon without markings whose
\* ROTField interface the interface table resolves.
LeafScenario ==
    /\ role = "local"
    /\ registers_paths
    /\ Len(topology.routers.CHILD) = 1
    /\ "PATH_SERVER" \in DOMAIN topology.servers
    /\ Len(hist.rcv) = 1
    /\ hist.rcv[1].ads = <<>>
    /\ hist.rcv[1].rotf.if_id \in DOMAIN ifid2addr

IsChildBeacon(s) ==
    LET C == topology.routers.CHILD[1]
    IN  /\ s.packet.type = "BEACON"
        /\ s.dst = C.addr
        /\ Len(s.packet.pcb.ads) = 1
        /\ s.packet.pcb.ads[1].pcbm.hof.ingress_if = hist.rcv[1].rotf.if_id
        /\ s.packet.pcb.ads[1].pcbm.hof.egress_if = C.if_id

IsUpRecord(s) ==
    /\ s.packet.type = "PATH_REC"
    /\ s.dst = topology.servers["PATH_SERVER"].addr
    /\ s.packet.info.type = "UP"

IsDownRecord(s) ==
    /\ s.packet.type = "PATH_REC"
    /\ s.dst = ifid2addr[hist.rcv[1].rotf.if_id]
    /\ s.packet.info.type = "DOWN"
    /\ \A i \in 1..Len(s.packet.pcb.ads) : s.packet.pcb.ads[i].sig = 0

\* C7: in the leaf scenario the server sends, in this order and nothing else,
\* one beacon to C with the single marking (ROTField interface as received,
\* C's interface), one UP PathRecords to the path server and one DOWN
\* PathRecords without signatures to the next hop of the reversed path's first
\* hop; the beacon is out once the propagation tick has handled the PCB, the
\* two records once the registration tick has.
C7_LeafScenario ==
    LeafScenario =>
        /\ Len(sent) <= 3
        /\ Len(sent) >= 1 => IsChildBeacon(sent[1])
        /\ Len(sent) >= 2 => IsUpRecord(sent[2])
        /\ Len(sent) >= 3 => IsDownRecord(sent[3])
        /\ hist.enq # <<>> => Len(sent) >= 1
        /\ (hist.deq # <<>> /\ reg_pc # "register") => Len(sent) = 3
        /\ reg_pc # "dead"

\* The scenario has run to its end: both ticks are over, three packets sent.
C7_Witness ==
    /\ LeafScenario
    /\ prop_pc = "sleep"
    /\ reg_pc = "sleep"
    /\ hist.deq = <<1>>
    /\ Len(sent) = 3

(***************************************************************************)
(* C4, C9.  The queues under concurrency.                                  *)
(***************************************************************************)
Range(f) == {f[i] : i \in DOMAIN f}
NoRepeat(f) == \A i, j \in DOMAIN f : f[i] = f[j] => i = j
IsPrefix(p, f) == Len(p) <= Len(f) /\ SubSeq(f, 1, Len(p)) = p
Tags(queue) == [i \in DOMAIN queue |-> queue[i].tag]
\* The positions in sent of the packets of the given type carrying PCB t.
SentOf(type, t) ==
    {i \in 1..Len(sent) : sent[i].packet.type = type /\ sent[i].packet.pcb.tag = t}

\* C4: in every interleaving each accepted PCB leaves the inbound queue at
\* most once, enters the registration queue once, when it has been
\* propagated, and leaves it at most once; what the registration queue holds
\* was popped from the inbound queue; no PCB is propagated or registered twice.
C4_ExactlyOnce ==
    /\ NoRepeat(hist.acc) /\ NoRepeat(hist.pop)
    /\ NoRepeat(hist.enq) /\ NoRepeat(hist.deq)
    /\ IsPrefix(hist.pop, hist.acc)
    /\ IsPrefix(hist.enq, hist.pop)
    /\ IsPrefix(hist.deq, hist.enq)
    /\ hist.acc = hist.pop \o Tags(beacons)
    /\ hist.enq = hist.deq \o Tags(reg_queue)
    /\ Len(hist.pop) - Len(hist.enq) = IF prop_pc \in {"propagate", "append"} THEN 1 ELSE 0
    /\ \A t \in 1..MaxBeacons :
          LET routers == IF role = "core" THEN topology.routers.ROUTING
                         ELSE topology.routers.CHILD
              halves == IF role = "core" /\ "PATH_SERVER" \notin DOMAIN topology.servers
                        THEN 1 ELSE 2
          IN  /\ Cardinality(SentOf("BEACON", t)) =
                    IF t \in Range(hist.enq) \/ (prop_pc = "append" /\ prop_pcb.tag = t)
                    THEN Len(routers) ELSE 0
              /\ Cardinality(SentOf("PATH_REC", t)) <= halves
              /\ SentOf("PATH_REC", t) # {} => t \in Range(hist.deq)

\* All MaxBeacons PCBs went through both queues and were registered.
C4_Witness ==
    /\ Len(hist.deq) = MaxBeacons
    /\ reg_pc = "sleep"
    /\ beacons = <<>> /\ reg_queue = <<>>
    /\ \A t \in 1..MaxBeacons : Cardinality(SentOf("PATH_REC", t)) = 2

\* C9: with registers_paths false the registration thread returns at its
\* check: no PathRecords is ever sent and nothing is popped from the
\* registration queue, whatever the propagation thread does.
C9_RegistrationDisabled ==
    ~registers_paths =>
        /\ reg_pc \in {"start", "done"}
        /\ hist.deq = <<>>
        /\ \A i \in 1..Len(sent) : sent[i].packet.type # "PATH_REC"

\* Registration is disabled, its thread has returned, and the propagation
\* thread has propagated every beacon and queued it for registration.
C9_Witness ==
    /\ ~registers_paths
    /\ reg_pc = "done"
    /\ Len(hist.enq) = MaxBeacons
    /\ Len(reg_queue) = MaxBeacons
    /\ \E i \in 1..Len(sent) : sent[i].packet.pcb.tag = MaxBeacons

(***************************************************************************)
(* C3, C5, C6.  Progress of the two loops.                                 *)
(***************************************************************************)
\* The interpreter schedules each thread again and again: a thread that can
\* take a step eventually takes one.
\* The configurations of Init, each beacon either without markings or with
\* one marking of this AD (which a core server refuses).
InitFair ==
    InitOf({"core", "local"}, BOOLEAN,
           {Topology(c, 1, 1, 1, ps) : c \in BOOLEAN, ps \in BOOLEAN},
           {IfidTable({1})},
           {[i \in 1..MaxTicks |-> i]},
           BeaconTrains({<<1, <<>>>>, <<1, <<<<1, 5>>>>>>}, MaxBeacons))

FairSpec == InitFair /\ [][Next]_vars /\ WF_vars(PropNext) /\ WF_vars(RegNext)

\* C3: every PCB appended to the inbound queue is eventually popped,
\* propagated and queued for registration.
C3_NoLostBeacon ==
    \A t \in 1..MaxBeacons :
        (t \in Range(hist.acc)) ~> (t \in Range(hist.pop) /\ t \in Range(hist.enq))

\* Every beacon delivered was accepted, propagated and queued, the last one
\* included.
C3_Witness ==
    /\ Len(hist.acc) = MaxBeacons
    /\ hist.enq = hist.acc
    /\ MaxBeacons \in Range(hist.acc)
    /\ \E i \in 1..Len(sent) :
          sent[i].packet.type = "BEACON" /\ sent[i].packet.pcb.tag = MaxBeacons

\* C5: the registration loop survives a registration whose target is
\* unavailable: its thread is never ended by one.
C5_RegistrationKeepsRunning == reg_pc # "dead"

\* A local server, whose propagation loop ticks for ever, with either value of
\* registers_paths.
InitFairLocal ==
    InitOf({"local"}, BOOLEAN, {Topology(FALSE, 1, 1, 1, ps) : ps \in BOOLEAN},
           {IfidTable({1})}, {<<>>},
           BeaconTrains({<<1, <<>>>>, <<2, <<<<1, 6>>>>>>}, MaxBeacons))

FairSpecLocal ==
    InitFairLocal /\ [][Next]_vars /\ WF_vars(PropNext) /\ WF_vars(RegNext)

\* C6: every PCB placed on the registration queue is eventually removed from
\* it, whatever registers_paths is.
C6_QueuesDrain ==
    \A t \in 1..MaxBeacons : (t \in Range(hist.enq)) ~> (t \in Range(hist.deq))

(***************************************************************************)
(* C10.  The timestamp of originated beacons.                              *)
(***************************************************************************)
\* The first reading at which (now + DELTA) wraps around the 16-bit counter.
WrapTime == TIME_INTERVAL * (2 ^ 16) - DELTA

\* A core server whose clock starts in the first seconds of a window or just
\* before the wraparound.
InitClock ==
    InitOf({"core"}, {TRUE}, {Topology(TRUE, 1, 1, 0, TRUE)}, {IfidTable({1})},
           ClockRuns((0..3) \cup ((WrapTime - 4)..(WrapTime - 1)), MaxTicks),
           BeaconTrains({<<1, <<>>>>}, 1))

SpecClock == InitClock /\ [][Next]_vars

Window(now) == (now + DELTA) \div (TIME_INTERVAL * (2 ^ 16))

\* C10: the timestamp of every originated beacon is an integer in 0..65535,
\* and of two originations within one window of 262144 seconds the later
\* carries no smaller a timestamp.
C10_TimestampQuantization ==
    /\ \A i \in 1..Len(sent) :
          sent[i].packet.pcb.tag = 0 =>
              LET ts == sent[i].packet.pcb.iof.timestamp
              IN  /\ IsInteger(ts)
                  /\ RatLeq(RatOfInt(0), ts)
                  /\ RatLeq(ts, RatOfInt(2 ^ 16 - 1))
    /\ \A i, j \in 1..Len(hist.org) :
          (i < j /\ Window(hist.org[i].now) = Window(hist.org[j].now))
              => RatLeq(hist.org[i].timestamp, hist.org[j].timestamp)

(***************************************************************************)
(* C11 .. C15.  What each role sends, and the shape of what it sends.      *)
(***************************************************************************)
\* The addresses of the routers of a category.
AddrsOf(cat) == {topology.routers[cat][k].addr : k \in DOMAIN topology.routers[cat]}

\* The tags of the PCBs a propagate call has been made for in the drain.
Propagated ==
    Range(hist.enq) \cup (IF prop_pc = "append" THEN {prop_pcb.tag} ELSE {})

\* C11: at a core server every sent beacon that stems from a received PCB is
\* addressed to a ROUTING router, every propagated PCB went to each ROUTING
\* router exactly once, and every beacon addressed to a CHILD router stems
\* from an originated PCB.
C11_CoreNoDownstreamReinjection ==
    role = "core" =>
        /\ \A i \in 1..Len(sent) :
              sent[i].packet.type = "BEACON" =>
                  /\ sent[i].packet.pcb.tag # 0 => sent[i].dst \in AddrsOf("ROUTING")
                  /\ sent[i].dst \in AddrsOf("CHILD") => sent[i].packet.pcb.tag = 0
        /\ \A t \in 1..MaxBeacons :
              IF t \in Propagated
              THEN \A a \in AddrsOf("ROUTING") :
                      Cardinality({i \in SentOf("BEACON", t) : sent[i].dst = a}) = 1
              ELSE SentOf("BEACON", t) = {}

\* A core server with two CHILD and two ROUTING routers has propagated a
\* received PCB and queued it for registration.
C11_Witness ==
    /\ role = "core"
    /\ Len(topology.routers.CHILD) = 2
    /\ Len(topology.routers.ROUTING) = 2
    /\ 1 \in Range(hist.enq)
    /\ Cardinality(SentOf("BEACON", 1)) = 2
    /\ \E i \in 1..Len(sent) : sent[i].dst \in AddrsOf("CHILD")

\* A step of the propagation thread from the top of its outer loop.
TickStep == prop_pc \in {"start", "sleep"} /\ prop_pc' = "check"

\* What a core server's tick sends and leaves alone.
CoreTickEffect ==
    LET outs == SubSeq(sent', Len(sent) + 1, Len(sent'))
        child == topology.routers.CHILD
        routing == topology.routers.ROUTING
        nc == Len(child)
    IN  /\ IsPrefix(sent, sent')
        /\ Len(outs) = nc + Len(routing)
        /\ \A i \in 1..nc : outs[i].dst = child[i].addr
        /\ \A i \in 1..Len(routing) : outs[nc + i].dst = routing[i].addr
        /\ \A i \in 1..Len(outs) :
              /\ outs[i].packet.type = "BEACON"
              /\ outs[i].packet.pcb.tag = 0
              /\ Len(outs[i].packet.pcb.ads) = 1
              /\ outs[i].packet.pcb.ads[1].pcbm.hof.ingress_if = 0
              /\ outs[i].packet.pcb.iof.timestamp = Timestamp(Head(clock))
        /\ Len(last_calls') = 2
        /\ last_calls'[1].fn = "downstream" /\ last_calls'[2].fn = "core"
        /\ \A k \in 1..2 :
              /\ last_calls'[k].before.ads = <<>>
              /\ last_calls'[k].before.rotf = ROTField
              /\ last_calls'[k].before.iof = last_calls'[1].before.iof
        /\ Len(hist'.org) = Len(hist.org) + 1
        /\ beacons' = beacons
        /\ reg_queue' = reg_queue
        /\ hist'.pop = hist.pop /\ hist'.enq = hist.enq

\* C12: each tick of a core server originates one downstream and one
\* core-mesh PCB, both without markings, with a fresh ROTField and the same
\* timestamp; each CHILD router is sent one copy of the first and each ROUTING
\* router one copy of the second, every copy with exactly one marking; the
\* tick touches no queue, so the drain comes after it, every pop follows an
\* origination, and no originated PCB is ever on the registration queue.
C12_CoreOrigination ==
    [][role = "core" =>
          /\ TickStep => CoreTickEffect
          /\ hist'.pop # hist.pop =>
                /\ prop_pc = "pop"
                /\ Len(hist.org) >= 1
                /\ Len(hist'.org) = Len(hist.org)
          /\ 0 \notin Range(hist'.enq)
          /\ \A i \in 1..Len(reg_queue') : reg_queue'[i].tag # 0]_vars

\* The second tick of a core server with two CHILD and two ROUTING routers
\* has originated while a received PCB waits in the inbound queue.
C12_Witness ==
    /\ role = "core"
    /\ Len(topology.routers.CHILD) = 2
    /\ Len(topology.routers.ROUTING) = 2
    /\ prop_pc = "check"
    /\ Len(last_calls) = 2
    /\ Len(hist.org) = 2
    /\ Len(sent) >= 8
    /\ beacons # <<>>

\* The PCB handed to process_pcb with tag t.
ReceivedAs(t) == hist.rcv[CHOOSE j \in 1..Len(hist.rcv) : hist.rcv[j].tag = t]

\* pcb is rcv with one more marking, built by this AD.
AugmentedCopy(pcb, rcv) ==
    /\ Len(pcb.ads) = Len(rcv.ads) + 1
    /\ SubSeq(pcb.ads, 1, Len(rcv.ads)) = rcv.ads
    /\ pcb.ads[Len(pcb.ads)].pcbm.ad_id = topology.ad_id
    /\ pcb.ads[Len(pcb.ads)].pcbm.spcbf.isd_id = topology.isd_id
    /\ pcb.iof = rcv.iof

\* C13: every beacon a local server sends is a copy, with one more marking,
\* of a PCB it popped from its inbound queue, addressed to a CHILD router and
\* to no PARENT, PEER or ROUTING router; it sends beacons for popped PCBs
\* only, one per CHILD router each; and every PCB handed to process_pcb is
\* appended to the inbound queue, also one carrying this AD's own marking.
C13_LeafForwardsDown ==
    role = "local" =>
        /\ \A i \in 1..Len(sent) :
              sent[i].packet.type = "BEACON" =>
                  /\ sent[i].packet.pcb.tag \in Range(hist.pop)
                  /\ AugmentedCopy(sent[i].packet.pcb,
                                   ReceivedAs(sent[i].packet.pcb.tag))
                  /\ sent[i].dst \in AddrsOf("CHILD")
                  /\ sent[i].dst \notin
                        AddrsOf("PARENT") \cup AddrsOf("PEER") \cup AddrsOf("ROUTING")
        /\ Cardinality({i \in 1..Len(sent) : sent[i].packet.type = "BEACON"})
               = Len(topology.routers.CHILD) * Cardinality(Propagated)
        /\ hist.acc = Tags(hist.rcv)
        /\ hist.org = <<>>

\* A local server with PARENT, PEER and ROUTING routers accepted a PCB whose
\* only marking is this AD's own, and sent it on to its CHILD router.
C13_Witness ==
    /\ role = "local"
    /\ topology.routers.PARENT # <<>>
    /\ topology.routers.PEER # <<>>
    /\ topology.routers.ROUTING # <<>>
    /\ \E i \in 1..Len(sent) :
          /\ sent[i].packet.type = "BEACON"
          /\ sent[i].dst \in AddrsOf("CHILD")
          /\ Len(sent[i].packet.pcb.ads) = 2
          /\ OwnPositions(sent[i].packet.pcb) = {1, 2}

\* pcb is rcv plus one terminating marking of this AD: ingress the ROTField
\* interface of rcv, egress 0; signatures apart, the rest is as in rcv.
TerminatedCopy(pcb, rcv) ==
    LET n == Len(rcv.ads)
    IN  /\ Len(pcb.ads) = n + 1
        /\ \A k \in 1..n : StripSig(pcb.ads[k]) = StripSig(rcv.ads[k])
        /\ pcb.ads[n + 1].pcbm.ad_id = topology.ad_id
        /\ pcb.ads[n + 1].pcbm.spcbf.isd_id = topology.isd_id
        /\ pcb.ads[n + 1].pcbm.hof = HopOpaqueField(rcv.rotf.if_id, 0)
        /\ pcb.rotf = rcv.rotf
        /\ pcb.iof = rcv.iof

\* C14: every entry of the registration queue is the PCB exactly as it was
\* accepted, markings and ROTField, at all times; the PCB the registration
\* thread holds, and the PCB of every PathRecords sent, is that PCB plus one
\* terminating marking with ingress = its ROTField interface and egress = 0.
C14_RegisteredShape ==
    /\ \A i \in 1..Len(reg_queue) : reg_queue[i] = ReceivedAs(reg_queue[i].tag)
    /\ reg_pc = "register" =>
          /\ TerminatedCopy(reg_pcb, ReceivedAs(reg_pcb.tag))
          /\ SubSeq(reg_pcb.ads, 1, Len(reg_pcb.ads) - 1) = ReceivedAs(reg_pcb.tag).ads
    /\ \A i \in 1..Len(sent) :
          sent[i].packet.type = "PATH_REC" =>
              TerminatedCopy(sent[i].packet.pcb, ReceivedAs(sent[i].packet.pcb.tag))

\* A PCB with two markings, sent on to two routers with a third marking each,
\* went through the registration queue and was registered with three markings.
C14_Witness ==
    /\ reg_queue = <<>>
    /\ hist.deq = <<1>>
    /\ Cardinality(SentOf("PATH_REC", 1)) = 2
    /\ Cardinality(SentOf("BEACON", 1)) = 2
    /\ \A i \in SentOf("PATH_REC", 1) :
          /\ Len(sent[i].packet.pcb.ads) = 3
          /\ sent[i].packet.pcb.ads[3].pcbm.hof = HopOpaqueField(1, 0)

\* The routers beacons are sent to.
BeaconRouters ==
    Range(topology.routers.CHILD) \cup Range(topology.routers.ROUTING)

\* The ROTField interface a sent beacon's PCB carried before its propagation.
RotBefore(pcb) == IF pcb.tag = 0 THEN ROTField.if_id ELSE ReceivedAs(pcb.tag).rotf.if_id

\* C15: in every beacon sent the ROTField interface is the egress interface of
\* the last marking and the interface of the router the beacon is addressed
\* to, and the last marking's ingress interface is the ROTField interface the
\* PCB carried before the propagation.
C15_RotfIsEgress ==
    \A i \in 1..Len(sent) :
        sent[i].packet.type = "BEACON" =>
            LET pcb == sent[i].packet.pcb
                last == pcb.ads[Len(pcb.ads)].pcbm.hof
            IN  /\ pcb.ads # <<>>
                /\ pcb.rotf.if_id = last.egress_if
                /\ \E r \in BeaconRouters :
                      r.addr = sent[i].dst /\ r.if_id = pcb.rotf.if_id
                /\ last.ingress_if = RotBefore(pcb)

\* A PCB received with ROTField interface 2 was sent on to two routers, and
\* an originated one as well.
C15_Witness ==
    /\ \E i, j \in SentOf("BEACON", 1) :
          /\ sent[i].packet.pcb.rotf.if_id # sent[j].packet.pcb.rotf.if_id
          /\ BuiltMarking(sent[i]).pcbm.hof.ingress_if = 2
          /\ Len(sent[i].packet.pcb.ads) = 3
    /\ SentOf("BEACON", 0) # {}

(***************************************************************************)
(* C16, C20.  The PathRecords of a registration.                           *)
(***************************************************************************)
\* Servers of either role that register paths, with and without a local path
\* server, handed beacons without markings or with one signed marking of
\* another AD; the interface table resolves interface 1, not interface 2.
InitRegister ==
    InitOf({"core", "local"}, {TRUE},
           {Topology(c, 1, 1, 1, ps) : c \in BOOLEAN, ps \in BOOLEAN},
           {IfidTable({1})},
           {[i \in 1..MaxTicks |-> i]},
           BeaconTrains({<<1, <<>>>>, <<1, <<<<1, 6>>>>>>, <<2, <<<<1, 6>>>>>>},
                        MaxBeacons))

SpecRegister == InitRegister /\ [][Next]_vars

\* The positions in sent of the PathRecords for PCB t sent to the local path
\* server, and of those sent to a next hop of the interface table.
SignedHalf(t) ==
    {i \in SentOf("PATH_REC", t) :
        /\ "PATH_SERVER" \in DOMAIN topology.servers
        /\ sent[i].dst = topology.servers["PATH_SERVER"].addr}

StrippedHalf(t) == {i \in SentOf("PATH_REC", t) : sent[i].dst \in Range(ifid2addr)}

\* The PCB registered for the received PCB rcv, as the registration thread
\* builds it.
RegisteredFor(rcv) == Terminated(rcv, topology)

\* C16: of the PathRecords sent for a dequeued PCB, the one to the local path
\* server carries the registered PCB with every signature as it was received
\* and no path; the one to the next hop carries the same markings with every
\* signature removed, and the reversed path; there is at most one of each, no
\* other, and the signed one is sent before the stripped one.
C16_SignedThenStripped ==
    \A t \in 1..MaxBeacons :
        LET signed == SignedHalf(t)
            stripped == StrippedHalf(t)
            reg == RegisteredFor(ReceivedAs(t))
        IN  /\ SentOf("PATH_REC", t) = signed \cup stripped
            /\ Cardinality(signed) <= 1
            /\ Cardinality(stripped) <= 1
            /\ \A i \in signed :
                  /\ sent[i].packet.pcb = reg
                  /\ sent[i].packet.path = Null
            /\ \A j \in stripped :
                  LET pcb == sent[j].packet.pcb
                  IN  /\ Len(pcb.ads) = Len(reg.ads)
                      /\ \A k \in 1..Len(pcb.ads) :
                            /\ pcb.ads[k].sig = 0
                            /\ pcb.ads[k] = StripSig(reg.ads[k])
                      /\ sent[j].packet.path =
                            [k \in 1..Len(pcb.ads) |->
                                pcb.ads[Len(pcb.ads) + 1 - k].pcbm.hof]
                      /\ sent[j].dst = ifid2addr[sent[j].packet.path[1].ingress_if]
            /\ \A i \in signed, j \in stripped : i < j
            /\ (stripped # {} /\ "PATH_SERVER" \in DOMAIN topology.servers)
                  => signed # {}

\* For a PCB received with a signed marking both halves were sent, the first
\* with the signature, the second without it and with a path of two hops.
C16_Witness ==
    \E t \in 1..MaxBeacons :
        \E i \in SignedHalf(t), j \in StrippedHalf(t) :
            /\ i < j
            /\ ReceivedAs(t).ads # <<>>
            /\ ReceivedAs(t).ads[1].sig = 1
            /\ sent[i].packet.pcb.ads[1].sig = 1
            /\ sent[j].packet.pcb.ads[1].sig = 0
            /\ Len(sent[j].packet.path) = 2

(***************************************************************************)
(* C17, C18.  The drain of the two queues.                                 *)
(***************************************************************************)
\* C17: the propagation thread enters its sleep only from the loop test, with
\* the inbound queue empty as it does, and by then every PCB accepted so far,
\* those accepted in the middle of the drain included, has been propagated
\* and queued for registration; the registration thread enters its sleep
\* only from its loop test with the registration queue empty.
C17_DrainEntirely ==
    [][/\ (prop_pc' = "sleep" /\ prop_pc # "sleep") =>
             /\ prop_pc = "check"
             /\ beacons = <<>> /\ beacons' = <<>>
             /\ hist.enq = hist.acc
             /\ Range(hist.mid) \subseteq Range(hist.enq)
       /\ (reg_pc' = "sleep" /\ reg_pc # "sleep") =>
             /\ reg_pc = "check"
             /\ reg_queue = <<>> /\ reg_queue' = <<>>
             /\ hist.deq = hist.enq]_vars

\* A core server in the sleep of its first tick: the second PCB was accepted
\* in the middle of the drain and propagated in it; the registration thread
\* sleeps as well, having registered both.
C17_Witness ==
    /\ role = "core"
    /\ Len(hist.org) = 1
    /\ prop_pc = "sleep"
    /\ hist.mid = <<2>>
    /\ hist.enq = <<1, 2>>
    /\ SentOf("BEACON", 2) # {}
    /\ reg_pc = "sleep"
    /\ hist.deq = <<1, 2>>

\* The position of tag t in the sequence of tags f.
PosIn(f, t) == CHOOSE k \in 1..Len(f) : f[k] = t

\* The packets of the given type for received PCBs are in sent in the order
\* of the PCBs' acceptance.
InAcceptanceOrder(type) ==
    LET at == {i \in 1..Len(sent) :
                  sent[i].packet.type = type /\ sent[i].packet.pcb.tag # 0}
        pos == [i \in at |-> PosIn(hist.acc, sent[i].packet.pcb.tag)]
    IN  \A i, j \in at : i < j => pos[i] <= pos[j]

\* C18: in every interleaving the PCBs are popped from the inbound queue in
\* the order of their acceptance, queued for registration and dequeued in
\* that order, and the beacons, and the PathRecords, of a PCB accepted earlier
\* are all sent before those of a PCB accepted later.
C18_OrderPreserved ==
    /\ hist.pop = SubSeq(hist.acc, 1, Len(hist.pop))
    /\ hist.enq = SubSeq(hist.acc, 1, Len(hist.enq))
    /\ hist.deq = SubSeq(hist.acc, 1, Len(hist.deq))
    /\ Len(hist.deq) <= Len(hist.enq) /\ Len(hist.enq) <= Len(hist.pop)
    /\ Len(hist.pop) <= Len(hist.acc)
    /\ InAcceptanceOrder("BEACON")
    /\ InAcceptanceOrder("PATH_REC")

\* Two PCBs were accepted before the drain began, both were sent on before
\* the first was registered, and both were registered.
C18_Witness ==
    /\ Len(hist.acc) = 2
    /\ Len(hist.deq) = 2
    /\ hist.mid = <<>>
    /\ SentOf("PATH_REC", 1) # {} /\ SentOf("PATH_REC", 2) # {}
    /\ SentOf("BEACON", 1) # {} /\ SentOf("BEACON", 2) # {}
    /\ \A i \in SentOf("PATH_REC", 1), j \in SentOf("BEACON", 2) : j < i

(***************************************************************************)
(* C19.  The dispatch of handle_request.                                   *)
(***************************************************************************)
\* The packet types the transport delivers: the three handle_request names
\* and one it does not.
PacketTypes == {"IFID_REQ", "IFID_REP", "BEACON", "DATA"}

\* n packets of any of the types, each with a PCB as payload, tagged 1..n.
MixedTrains(n) ==
    {[i \in 1..n |-> Packet(ty[i], ReceivedPCB(i, 1, <<>>))] :
        ty \in [1..n -> PacketTypes]}

\* A server of either role handed packets of every type.
InitDispatch ==
    InitOf({"core", "local"}, {TRUE},
           {Topology(c, 1, 1, 1, TRUE) : c \in BOOLEAN},
           {IfidTable({1})},
           {[i \in 1..MaxTicks |-> i]},
           MixedTrains(MaxBeacons))

SpecDispatch == InitDispatch /\ [][Next]_vars

\* A step of the receiver: handle_request is called on the next packet.
ReceiveStep == inflight # <<>> /\ inflight' = Tail(inflight)

\* C19: handle_request called on a packet that is not a BEACON leaves both
\* queues, what was sent and both threads as they are; called on a BEACON it
\* changes the inbound queue only, as process_pcb does.
C19_DispatchFrame ==
    [][ReceiveStep =>
          /\ reg_queue' = reg_queue
          /\ sent' = sent
          /\ <<prop_pc, prop_pcb, reg_pc, reg_pcb>>' = <<prop_pc, prop_pcb, reg_pc, reg_pcb>>
          /\ config' = config
          /\ IF Head(inflight).ptype = "BEACON"
             THEN beacons' \in {beacons, Append(beacons, Head(inflight).pcb)}
             ELSE beacons' = beacons /\ hist' = hist]_vars

\* The first packet was not a BEACON; the server went on to accept the
\* second, a BEACON, and to propagate and register it.
C19_Witness ==
    /\ inflight = <<>>
    /\ Len(hist.rcv) = 1
    /\ hist.acc = <<2>>
    /\ hist.deq = <<2>>
    /\ SentOf("BEACON", 1) = {} /\ SentOf("PATH_REC", 1) = {}
    /\ SentOf("BEACON", 2) # {} /\ SentOf("PATH_REC", 2) # {}

\* The (ISD, AD) of a marking, and this server's.
OriginOf(ad) == <<ad.pcbm.spcbf.isd_id, ad.pcbm.ad_id>>
Own == <<topology.isd_id, topology.ad_id>>

\* C20: every PathRecords a core server sends has kind CORE, as source the
\* (ISD, AD) of the first marking of the PCB it carries and as destination
\* the server's own (ISD, AD); when the PCB was accepted with at least one
\* marking, the source is the (ISD, AD) of the first marking it was accepted
\* with, and that is not the server's own.
C20_CorePathInfo ==
    role = "core" =>
        \A i \in 1..Len(sent) :
            sent[i].packet.type = "PATH_REC" =>
                LET info == sent[i].packet.info
                    pcb == sent[i].packet.pcb
                    rcv == ReceivedAs(pcb.tag)
                IN  /\ info.type = "CORE"
                    /\ <<info.src_isd, info.src_ad>> = OriginOf(pcb.ads[1])
                    /\ <<info.dst_isd, info.dst_ad>> = Own
                    /\ rcv.ads # <<>> =>
                          /\ <<info.src_isd, info.src_ad>> = OriginOf(rcv.ads[1])
                          /\ <<info.src_isd, info.src_ad>> # Own

\* A PCB accepted with three markings, the first of (ISD 2, AD 5) and none
\* of this AD, was registered with both path servers.
C20_Witness ==
    /\ role = "core"
    /\ \E t \in Range(hist.deq) :
          /\ Len(ReceivedAs(t).ads) = 3
          /\ OriginOf(ReceivedAs(t).ads[1]) = <<2, 5>>
          /\ Cardinality(SentOf("PATH_REC", t)) = 2
          /\ \A i \in SentOf("PATH_REC", t) :
                <<sent[i].packet.info.src_isd, sent[i].packet.info.src_ad>> = <<2, 5>>

====
